---- MODULE Spec2Model ----
(***************************************************************************)
(* sdl-jstest: main() of src/src/sdl-jstest.c as a state machine.          *)
(* One action per statement group of main(); pc is the position in main(). *)
(***************************************************************************)
EXTENDS Integers, Sequences, FiniteSets, TLC

(***************************************************************************)
(* Bounds of the model.                                                    *)
(***************************************************************************)
MaxJoysticks == 2      \* SDL_NumJoysticks() reports 0..MaxJoysticks devices
MaxEvents == 2         \* events the input subsystem delivers in one run
MaxQueue == 2          \* events pending in the SDL queue at one time
NumAxes == 2           \* axis count of the opened device
NumButtons == 1        \* button count of the opened device
NumHats == 1           \* hat count of the opened device
NumBalls == 1          \* ball count of the opened device
MaxBarLen == 4         \* bar widths 1..MaxBarLen are drawn, besides a full row

(***************************************************************************)
(* Program constants.                                                      *)
(***************************************************************************)
INT_MAX == 2147483647
INT_MIN == -INT_MAX - 1
EXIT_SUCCESS == 0
EXIT_FAILURE == 1
CTRL_C == 3
ERR == -1
SDL_HAT_UP == 1
SDL_HAT_RIGHT == 2
SDL_HAT_DOWN == 4
SDL_HAT_LEFT == 8
SDL_RELEASED == 0
SDL_PRESSED == 1

(***************************************************************************)
(* Argument vectors.  Arguments are C strings; Chars gives the characters  *)
(* of the texts that str2int reads.                                        *)
(***************************************************************************)
Prog == "sdl-jstest"

Options ==
  {"--help", "-h", "--version", "--list", "-l",
   "--test", "-t", "--event", "-e", "--bogus"}

ShortIndexOptions == {"-t", "-e"}

NumTexts == {"0", "1", "-1", "42", "+7", " 5", "abc", "12x", "", "-",
             "2147483647", "2147483648", "-2147483648", "-2147483649",
             "99999999999999"}

\* The device that opens is index 1 in test mode; in event-log mode it is
\* index 0, which the empty text also parses to where strtol leaves errno 0.
TestTexts == NumTexts \ {"0", ""}

EventTexts == NumTexts \ {"1"}

Chars(s) ==
  CASE s = "0" -> <<"0">>
    [] s = "1" -> <<"1">>
    [] s = "-1" -> <<"-", "1">>
    [] s = "42" -> <<"4", "2">>
    [] s = "+7" -> <<"+", "7">>
    [] s = " 5" -> <<" ", "5">>
    [] s = "abc" -> <<"a", "b", "c">>
    [] s = "12x" -> <<"1", "2", "x">>
    [] s = "" -> <<>>
    [] s = "-" -> <<"-">>
    [] s = "2147483647" -> <<"2", "1", "4", "7", "4", "8", "3", "6", "4", "7">>
    [] s = "2147483648" -> <<"2", "1", "4", "7", "4", "8", "3", "6", "4", "8">>
    [] s = "-2147483648" ->
         <<"-", "2", "1", "4", "7", "4", "8", "3", "6", "4", "8">>
    [] s = "-2147483649" ->
         <<"-", "2", "1", "4", "7", "4", "8", "3", "6", "4", "9">>
    [] s = "99999999999999" ->
         <<"9", "9", "9", "9", "9", "9", "9", "9", "9", "9", "9", "9", "9", "9">>

Argvs ==
  {<<Prog>>}
    \cup {<<Prog, o>> : o \in Options}
    \cup {<<Prog, "--test", n>> : n \in TestTexts}
    \cup {<<Prog, "--event", n>> : n \in EventTexts}
    \cup {<<Prog, o, n>> :
            o \in ShortIndexOptions \cup {"--list", "--bogus"},
                          n \in {"42", "abc"}}
    \cup {<<Prog, o, "0", "1">> : o \in {"--test", "--help"}}

(***************************************************************************)
(* strtol(str, &endptr, 10) and str2int.                                   *)
(***************************************************************************)
Digits == {"0", "1", "2", "3", "4", "5", "6", "7", "8", "9"}

DigitVal(c) ==
  CASE c = "0" -> 0 [] c = "1" -> 1 [] c = "2" -> 2 [] c = "3" -> 3
    [] c = "4" -> 4 [] c = "5" -> 5 [] c = "6" -> 6 [] c = "7" -> 7
    [] c = "8" -> 8 [] c = "9" -> 9

IsSpace(c) == c \in {" ", "\t", "\n"}

\* Index of the first character at or after i that is not white space.
RECURSIVE SkipSpace(_, _)
SkipSpace(cs, i) ==
  IF i <= Len(cs) /\ IsSpace(cs[i]) THEN SkipSpace(cs, i + 1) ELSE i

\* The digits from position i on, accumulated as a negative number so that
\* INT_MIN is reachable; big is set once the magnitude leaves the int range.
RECURSIVE ScanDigits(_, _, _, _)
ScanDigits(cs, i, acc, big) ==
  IF i <= Len(cs) /\ cs[i] \in Digits
  THEN LET d == DigitVal(cs[i])
           fits == ~big /\ (acc > -214748364 \/ (acc = -214748364 /\ d <= 8))
       IN  ScanDigits(cs, i + 1, IF fits THEN acc * 10 - d ELSE acc, ~fits)
  ELSE [end |-> i, acc |-> acc, big |-> big]

\* strtol: end is the index endptr points at (Len + 1 is the terminating NUL),
\* conv tells whether any digit was converted, big whether the value is beyond
\* the int range (ERANGE, or a long outside INT_MIN..INT_MAX).
strtol(cs) ==
  LET s == SkipSpace(cs, 1)
      neg == s <= Len(cs) /\ cs[s] = "-"
      d0 == IF s <= Len(cs) /\ cs[s] \in {"-", "+"} THEN s + 1 ELSE s
      r == ScanDigits(cs, d0, 0, FALSE)
      conv == r.end > d0
      big == r.big \/ (~neg /\ r.acc = INT_MIN)
  IN  [conv |-> conv,
       end |-> IF conv THEN r.end ELSE 1,
       big |-> conv /\ big,
       val |-> IF ~conv \/ big THEN 0 ELSE IF neg THEN r.acc ELSE -r.acc]

\* str2int(str, &val) with errno as strtol left it: ok is the return value.
\* einval: whether this C library sets errno (EINVAL) when nothing converts.
str2int(cs, einval) ==
  LET t == strtol(cs)
      errno == IF t.big \/ (~t.conv /\ einval) THEN 1 ELSE 0
  IN  IF errno # 0 THEN [ok |-> FALSE, val |-> 0]
      ELSE IF t.end # Len(cs) + 1 THEN [ok |-> FALSE, val |-> 0]
      ELSE IF t.val < INT_MIN \/ t.val > INT_MAX THEN [ok |-> FALSE, val |-> 0]
      ELSE [ok |-> TRUE, val |-> t.val]


(***************************************************************************)
(* Input events (SDL_Event): idx is the axis, button, hat or ball number,  *)
(* val the value, state or xrel, yrel the ball's yrel.                     *)
(***************************************************************************)
Ev(t, i, v, y) == [type |-> t, idx |-> i, val |-> v, yrel |-> y]

NoEvent == Ev("none", 0, 0, 0)

\* The axis value the events of the polling loop carry; the render step is
\* taken through every Sint16 value on its own (BarSpec).
AxisValues == {32767}

HatValues == {SDL_HAT_UP + SDL_HAT_LEFT}

BallDeltas == {<<1, -1>>}

\* An index field ranges up to the device's count, which is one past the end.
Events ==
  {Ev("SDL_JOYAXISMOTION", i, v, 0) : i \in 0..NumAxes, v \in AxisValues}
    \cup {Ev("SDL_JOYBUTTONDOWN", i, SDL_PRESSED, 0) : i \in 0..NumButtons}
    \cup {Ev("SDL_JOYBUTTONUP", i, SDL_RELEASED, 0) : i \in 0..NumButtons}
    \cup {Ev("SDL_JOYHATMOTION", i, v, 0) : i \in 0..NumHats, v \in HatValues}
    \cup {Ev("SDL_JOYBALLMOTION", i, d[1], d[2]) : i \in 0..NumBalls,
                                                     d \in BallDeltas}
    \cup {Ev("SDL_QUIT", 0, 0, 0), Ev("SDL_KEYDOWN", 0, 0, 0)}

Keys == {ERR, CTRL_C}

TermCols == {26}

(***************************************************************************)
(* Arrays and arithmetic as C has them.                                    *)
(***************************************************************************)
\* calloc(n, size): n zeroed entries, indexed from 0.
calloc(n) == [i \in 0..(n - 1) |-> 0]

\* arr[i] = v: a write past the end of the block lands outside it.
Store(arr, i, v) ==
  [j \in (DOMAIN arr) \cup {i} |-> IF j = i THEN v ELSE arr[j]]

\* a / b of C: the quotient truncated toward zero (b > 0).
CDiv(a, b) == IF a >= 0 THEN a \div b ELSE -((-a) \div b)

\* (h & bit) != 0 for a single-bit mask.
HasBit(h, bit) == (h \div bit) % 2 = 1

(***************************************************************************)
(* The renderer.                                                           *)
(***************************************************************************)
\* print_bar(pos, len): the cells between the brackets.
print_bar(pos, len) ==
  [i \in 0..(len - 1) |-> IF i = pos THEN "#" ELSE " "]

\* Mutant: the value is scaled onto len cells instead of len - 1.
BarPosFullLen(v, len) == CDiv((v + 32767) * len, 65534)

\* The position argument of print_bar for axis value v.
BarPos(v, len) == CDiv((v + 32767) * (len - 1), 65534)

\* Mutant: the down and left indicators are passed in each other's place.
HatRowSwapped(h) ==
  LET up == HasBit(h, SDL_HAT_UP)
      down == HasBit(h, SDL_HAT_DOWN)
      left == HasBit(h, SDL_HAT_LEFT)
      right == HasBit(h, SDL_HAT_RIGHT)
      O(c) == IF c THEN "O" ELSE " "
      B(c) == IF c THEN "1" ELSE "0"
  IN  [value |-> h,
       up |-> B(up), down |-> B(left), left |-> B(down), right |-> B(right),
       cells |->
         << <<O(up /\ left), O(up /\ ~(left \/ right)), O(up /\ right)>>,
            <<O(~(up \/ down) /\ left),
              O(~(up \/ down) /\ ~(left \/ right)),
              O(~(up \/ down) /\ right)>>,
            <<O(down /\ left), O(down /\ ~(left \/ right)),
              O(down /\ right)>> >>]

\* Mutant: the middle column tests the left bit only, not left | right.
HatRowMiddleIgnoresRight(h) ==
  LET up == HasBit(h, SDL_HAT_UP)
      down == HasBit(h, SDL_HAT_DOWN)
      left == HasBit(h, SDL_HAT_LEFT)
      right == HasBit(h, SDL_HAT_RIGHT)
      O(c) == IF c THEN "O" ELSE " "
      B(c) == IF c THEN "1" ELSE "0"
  IN  [value |-> h,
       up |-> B(up), down |-> B(down), left |-> B(left), right |-> B(right),
       cells |->
         << <<O(up /\ left), O(up /\ ~left), O(up /\ right)>>,
            <<O(~(up \/ down) /\ left),
              O(~(up \/ down) /\ ~left),
              O(~(up \/ down) /\ right)>>,
            <<O(down /\ left), O(down /\ ~left), O(down /\ right)>> >>]

\* The nine cells of the hat diagram, row by row, and the four indicators.
HatRow(h) ==
  LET up == HasBit(h, SDL_HAT_UP)
      down == HasBit(h, SDL_HAT_DOWN)
      left == HasBit(h, SDL_HAT_LEFT)
      right == HasBit(h, SDL_HAT_RIGHT)
      O(c) == IF c THEN "O" ELSE " "
      B(c) == IF c THEN "1" ELSE "0"
  IN  [value |-> h,
       up |-> B(up), down |-> B(down), left |-> B(left), right |-> B(right),
       cells |->
         << <<O(up /\ left), O(up /\ ~(left \/ right)), O(up /\ right)>>,
            <<O(~(up \/ down) /\ left),
              O(~(up \/ down) /\ ~(left \/ right)),
              O(~(up \/ down) /\ right)>>,
            <<O(down /\ left), O(down /\ ~(left \/ right)),
              O(down /\ right)>> >>]

NoScreen == [drawn |-> FALSE]

\* What move(0,0) ... refresh() paints from the four arrays.
Paint(idx, cols, ax, nax, bt, nbt, ht, nht, bl, nbl) ==
  [drawn |-> TRUE,
   number |-> idx,
   axes |-> [i \in 0..(nax - 1) |->
               [value |-> ax[i],
                bar |-> print_bar(BarPos(ax[i], cols - 20), cols - 20)]],
   buttons |-> [i \in 0..(nbt - 1) |->
                  [value |-> bt[i],
                   glyph |-> IF bt[i] # 0 THEN "[#]" ELSE "[ ]"]],
   hats |-> [i \in 0..(nht - 1) |-> HatRow(ht[i])],
   balls |-> [i \in 0..(nbl - 1) |-> <<bl[2 * i], bl[2 * i + 1]>>]]

(***************************************************************************)
(* State.                                                                  *)
(***************************************************************************)
VARIABLES
  argv,           \* the argument vector; argc is its length
  devices,        \* what SDL_NumJoysticks() reports
  pc,             \* position in main()
  exit_code,      \* the exit status once pc = "exited", -1 before
  atexit,         \* SDL_Quit is registered with atexit()
  output,         \* the lines written to stdout and stderr, in order
  handles,        \* device indices SDL holds an open joystick for
  joy,            \* SDL_Joystick* joy: <<>> is NULL, <<i>> the handle of i
  joy_idx,        \* int joy_idx
  num_joysticks,  \* int num_joysticks (list mode)
  curses,         \* initscr() was called and endwin() was not
  COLS,           \* the terminal width curses reports
  num_axes,       \* int num_axes
  num_buttons,    \* int num_buttons
  num_hats,       \* int num_hats
  num_balls,      \* int num_balls
  axes,           \* Sint16* axes
  buttons,        \* Uint8* buttons
  hats,           \* Uint8* hats
  balls,          \* Sint16* balls, two entries per ball
  quit,           \* int quit
  event,          \* SDL_Event event
  something_new,  \* bool something_new
  screen,         \* what the last refresh() put on the terminal
  key,            \* the value the last getch() returned
  queue,          \* the events pending in the SDL event queue
  arrived,        \* how many events the input subsystem has queued so far
  wait_ret,       \* what the last SDL_WaitEvent() returned
  ran,            \* history: the behaviours of the dispatch executed so far
  tick_polled,    \* history: events polled in the current iteration
  first_tick,     \* history: the current iteration is the first one
  rendered,       \* history: the current iteration has executed the render
  tick_base,      \* history: the four arrays as the current drain found them
  tick_events     \* history: the events the current drain has polled, in order

cliVars == <<argv, devices, pc, exit_code, atexit, output, handles, joy,
             joy_idx, num_joysticks>>

countVars == <<num_axes, num_buttons, num_hats, num_balls>>

snapVars == <<axes, buttons, hats, balls>>

loopVars == <<quit, event, something_new, screen, key, tick_polled,
              first_tick, rendered, tick_base, tick_events>>

envVars == <<queue, arrived, wait_ret>>

modeVars == <<curses, COLS, countVars, snapVars, loopVars, envVars>>

\* The four arrays as one value.
Snapshot(ax, bt, ht, bl) ==
  [axes |-> ax, buttons |-> bt, hats |-> ht, balls |-> bl]

NoSnapshot == Snapshot(calloc(0), calloc(0), calloc(0), calloc(0))

vars == <<cliVars, ran, curses, COLS, countVars, snapVars, loopVars, envVars>>

argc == Len(argv)

Line(fd, msg, arg) == [fd |-> fd, msg |-> msg, arg |-> arg]

Printf(msg, arg) == Append(output, Line("stdout", msg, arg))

Eprintf(msg, arg) == Append(output, Line("stderr", msg, arg))

\* exit(code): the atexit handler SDL_Quit closes every joystick still open.
Exit(code) ==
  /\ pc' = "exited"
  /\ exit_code' = code
  /\ handles' = IF atexit THEN {} ELSE handles

Init ==
  /\ argv \in Argvs
  /\ devices \in 0..MaxJoysticks
  /\ pc = "start"
  /\ exit_code = -1
  /\ atexit = FALSE
  /\ output = <<>>
  /\ handles = {}
  /\ joy = <<>>
  /\ joy_idx = 0
  /\ num_joysticks = 0
  /\ curses = FALSE
  /\ COLS = 0
  /\ num_axes = 0
  /\ num_buttons = 0
  /\ num_hats = 0
  /\ num_balls = 0
  /\ axes = calloc(0)
  /\ buttons = calloc(0)
  /\ hats = calloc(0)
  /\ balls = calloc(0)
  /\ quit = 0
  /\ event = NoEvent
  /\ something_new = FALSE
  /\ screen = NoScreen
  /\ key = ERR
  /\ queue = <<>>
  /\ arrived = 0
  /\ wait_ret = 1
  /\ ran = {}
  /\ tick_polled = 0
  /\ first_tick = FALSE
  /\ rendered = FALSE
  /\ tick_base = NoSnapshot
  /\ tick_events = <<>>

(***************************************************************************)
(* main(): argument count, SDL_Init, the dispatch chain.                   *)
(***************************************************************************)
Start ==
  /\ pc = "start"
  /\ ran' = IF argc = 1 THEN {"Help"} ELSE ran
  /\ IF argc = 1
     THEN /\ output' = Printf("help", <<>>)
          /\ Exit(1)
     ELSE /\ pc' = "sdl_init"
          /\ UNCHANGED <<exit_code, output, handles>>
  /\ UNCHANGED modeVars
  /\ UNCHANGED <<argv, devices, atexit, joy, joy_idx, num_joysticks>>

SDLInit ==
  /\ pc = "sdl_init"
  /\ \E ok \in BOOLEAN :
       IF ~ok
       THEN /\ output' = Eprintf("Unable to init SDL", <<>>)
            /\ Exit(1)
            /\ UNCHANGED atexit
       ELSE /\ atexit' = TRUE
            /\ pc' = "help"
            /\ UNCHANGED <<exit_code, output, handles>>
  /\ UNCHANGED modeVars
  /\ UNCHANGED <<ran, argv, devices, joy, joy_idx, num_joysticks>>

IsHelp == argc = 2 /\ (argv[2] = "--help" \/ argv[2] = "-h")

IsVersion == argc = 2 /\ argv[2] = "--version"

IsList == argc = 2 /\ (argv[2] = "--list" \/ argv[2] = "-l")

IsTest == argc = 3 /\ (argv[2] = "--test" \/ argv[2] = "-t")

IsEvent == argc = 3 /\ (argv[2] = "--event" \/ argv[2] = "-e")

\* The branch the if / else-if chain starting at --version takes.
Mode ==
  IF IsVersion THEN "Version"
  ELSE IF IsList THEN "List"
  ELSE IF IsTest THEN "Test"
  ELSE IF IsEvent THEN "EventLog"
  ELSE "Error"

\* if (argc == 2 && --help) print_help();   -- an if of its own
Help ==
  /\ pc = "help"
  /\ output' = IF IsHelp THEN Printf("help", <<>>) ELSE output
  /\ ran' = IF IsHelp THEN ran \cup {"Help"} ELSE ran
  /\ pc' = "dispatch"
  /\ UNCHANGED modeVars
  /\ UNCHANGED <<argv, devices, exit_code, atexit, handles, joy, joy_idx,
                 num_joysticks>>

\* if (--version) ... else if (--list) ... else if (--test) ...
\* else if (--event) ... else unknown arguments
Dispatch ==
  /\ pc = "dispatch"
  /\ ran' = ran \cup {Mode}
  /\ IF IsVersion
     THEN /\ output' = Printf("sdl-jstest version", <<>>)
          /\ Exit(EXIT_SUCCESS)
     ELSE /\ UNCHANGED <<exit_code, handles>>
          /\ IF IsList THEN pc' = "list" /\ UNCHANGED output
             ELSE IF IsTest THEN pc' = "test" /\ UNCHANGED output
             ELSE IF IsEvent THEN pc' = "event" /\ UNCHANGED output
             ELSE /\ output' = Append(Eprintf("unknown arguments", <<>>),
                                      Line("stderr", "Try --help", <<>>))
                  /\ pc' = "return"
  /\ UNCHANGED modeVars
  /\ UNCHANGED <<argv, devices, atexit, joy, joy_idx, num_joysticks>>

\* return EXIT_SUCCESS;
Return ==
  /\ pc = "return"
  /\ Exit(EXIT_SUCCESS)
  /\ UNCHANGED modeVars
  /\ UNCHANGED <<ran, argv, devices, atexit, output, joy, joy_idx,
                 num_joysticks>>

(***************************************************************************)
(* The input subsystem: SDL_JoystickOpen / SDL_JoystickClose.              *)
(***************************************************************************)
\* The outcomes of SDL_JoystickOpen(i): it can fail for any index and succeeds
\* only for an index SDL_NumJoysticks() covers.
OpenResults(i) == IF i >= 0 /\ i < devices THEN {TRUE, FALSE} ELSE {FALSE}

(***************************************************************************)
(* List mode.                                                              *)
(***************************************************************************)
ListNum ==
  /\ pc = "list"
  /\ num_joysticks' = devices
  /\ IF devices = 0
     THEN /\ output' = Printf("No joysticks were found", <<>>)
          /\ pc' = "return"
          /\ UNCHANGED joy_idx
     ELSE /\ output' = Printf("Found joystick(s)", <<devices>>)
          /\ joy_idx' = 0
          /\ pc' = "list_loop"
  /\ UNCHANGED modeVars
  /\ UNCHANGED <<ran, argv, devices, exit_code, atexit, handles, joy>>

\* Mutant: the loop stops one index early.
ListMoreSkipLast == joy_idx < num_joysticks - 1

\* The loop bound of the list loop.
ListMore == joy_idx < num_joysticks

\* for (joy_idx = 0; joy_idx < num_joysticks; ++joy_idx)
\*   { joy = SDL_JoystickOpen(joy_idx); if (!joy) fprintf(stderr, ...); ...
ListOpen ==
  /\ pc = "list_loop"
  /\ IF ListMore
     THEN \E ok \in OpenResults(joy_idx) :
            IF ok
            THEN /\ joy' = <<joy_idx>>
                 /\ handles' = handles \cup {joy_idx}
                 /\ pc' = "list_info"
                 /\ UNCHANGED <<output, joy_idx>>
            ELSE /\ joy' = <<>>
                 /\ output' = Eprintf("Unable to open joystick", <<joy_idx>>)
                 /\ joy_idx' = joy_idx + 1
                 /\ UNCHANGED <<pc, handles>>
     ELSE /\ pc' = "return"
          /\ UNCHANGED <<output, joy, joy_idx, handles>>
  /\ UNCHANGED modeVars
  /\ UNCHANGED <<ran, argv, devices, exit_code, atexit, num_joysticks>>

\* The handles left open by SDL_JoystickClose(joy).
Closed(h) == handles \ {h[1]}

\* print_joystick_info(joy_idx, joy); SDL_JoystickClose(joy); ++joy_idx
ListInfoClose ==
  /\ pc = "list_info"
  /\ output' = Printf("joystick info", <<joy_idx>>)
  /\ handles' = Closed(joy)
  /\ joy_idx' = joy_idx + 1
  /\ pc' = "list_loop"
  /\ UNCHANGED modeVars
  /\ UNCHANGED <<ran, argv, devices, exit_code, atexit, joy, num_joysticks>>

(***************************************************************************)
(* Test mode: argument, open, curses, capability counts.                   *)
(***************************************************************************)
\* if (!str2int(argv[2], &joy_idx)) { fprintf(stderr, ...); exit(1); }
ParseIndex(next) ==
  \E einval \in BOOLEAN :
    LET r == str2int(Chars(argv[3]), einval)
    IN  IF ~r.ok
        THEN /\ output' = Eprintf("JOYSTICKNUM argument must be a number",
                                  <<argv[3]>>)
             /\ Exit(1)
             /\ UNCHANGED joy_idx
        ELSE /\ joy_idx' = r.val
             /\ pc' = next
             /\ UNCHANGED <<output, exit_code, handles>>

TestParse ==
  /\ pc = "test"
  /\ ParseIndex("test_open")
  /\ UNCHANGED modeVars
  /\ UNCHANGED <<ran, argv, devices, atexit, joy, num_joysticks>>

\* Mutant: the else is missing, so a failed open goes on into initscr().
TestOpenNoElse ==
  /\ pc = "test_open"
  /\ \E ok \in OpenResults(joy_idx) :
       IF ok
       THEN /\ joy' = <<joy_idx>>
            /\ handles' = handles \cup {joy_idx}
            /\ UNCHANGED output
       ELSE /\ joy' = <<>>
            /\ output' = Eprintf("Unable to open joystick", <<joy_idx>>)
            /\ UNCHANGED handles
  /\ pc' = "initscr"
  /\ UNCHANGED modeVars
  /\ UNCHANGED <<ran, argv, devices, exit_code, atexit, joy_idx,
                 num_joysticks>>

\* joy = SDL_JoystickOpen(joy_idx); if (!joy) fprintf(stderr, ...); else ...
TestOpen ==
  /\ pc = "test_open"
  /\ \E ok \in OpenResults(joy_idx) :
       IF ok
       THEN /\ joy' = <<joy_idx>>
            /\ handles' = handles \cup {joy_idx}
            /\ pc' = "initscr"
            /\ UNCHANGED output
       ELSE /\ joy' = <<>>
            /\ output' = Eprintf("Unable to open joystick", <<joy_idx>>)
            /\ pc' = "return"
            /\ UNCHANGED handles
  /\ UNCHANGED modeVars
  /\ UNCHANGED <<ran, argv, devices, exit_code, atexit, joy_idx,
                 num_joysticks>>

\* initscr(); noecho(); nodelay(stdscr, TRUE); curs_set(0);
InitScr ==
  /\ pc = "initscr"
  /\ curses' = TRUE
  /\ COLS' \in TermCols
  /\ pc' = "num_axes"
  /\ UNCHANGED <<ran, argv, devices, exit_code, atexit, output, handles, joy,
                 joy_idx, num_joysticks>>
  /\ UNCHANGED <<countVars, snapVars, loopVars, envVars>>

\* n = SDL_JoystickNum...(joy);
\* if (n < 0) { fprintf(stderr, ...); exit(EXIT_FAILURE); }
CountFailed(n) == n < 0

QueryCount(n, msg, next) ==
  IF CountFailed(n)
  THEN /\ output' = Eprintf(msg, <<>>)
       /\ Exit(EXIT_FAILURE)
  ELSE /\ pc' = next
       /\ UNCHANGED <<output, exit_code, handles>>

QueryAxes ==
  /\ pc = "num_axes"
  /\ \E n \in {-1, NumAxes} :
       /\ num_axes' = n
       /\ QueryCount(n, "Unable to get SDL axes count", "num_buttons")
  /\ UNCHANGED <<ran, argv, devices, atexit, joy, joy_idx, num_joysticks>>
  /\ UNCHANGED <<curses, COLS, num_buttons, num_hats, num_balls, snapVars,
                 loopVars, envVars>>

QueryButtons ==
  /\ pc = "num_buttons"
  /\ \E n \in {-1, NumButtons} :
       /\ num_buttons' = n
       /\ QueryCount(n, "Unable to get SDL buttons count", "num_hats")
  /\ UNCHANGED <<ran, argv, devices, atexit, joy, joy_idx, num_joysticks>>
  /\ UNCHANGED <<curses, COLS, num_axes, num_hats, num_balls, snapVars,
                 loopVars, envVars>>

QueryHats ==
  /\ pc = "num_hats"
  /\ \E n \in {-1, NumHats} :
       /\ num_hats' = n
       /\ QueryCount(n, "Unable to get SDL hats count", "num_balls")
  /\ UNCHANGED <<ran, argv, devices, atexit, joy, joy_idx, num_joysticks>>
  /\ UNCHANGED <<curses, COLS, num_axes, num_buttons, num_balls, snapVars,
                 loopVars, envVars>>

QueryBalls ==
  /\ pc = "num_balls"
  /\ \E n \in {-1, NumBalls} :
       /\ num_balls' = n
       /\ QueryCount(n, "Unable to get SDL balls count", "test_alloc")
  /\ UNCHANGED <<ran, argv, devices, atexit, joy, joy_idx, num_joysticks>>
  /\ UNCHANGED <<curses, COLS, num_axes, num_buttons, num_hats, snapVars,
                 loopVars, envVars>>

\* The four calloc()s; int quit = 0; bool something_new = TRUE;
TestAlloc ==
  /\ pc = "test_alloc"
  /\ axes' = calloc(num_axes)
  /\ buttons' = calloc(num_buttons)
  /\ hats' = calloc(num_hats)
  /\ balls' = calloc(2 * num_balls)
  /\ quit' = 0
  /\ something_new' = TRUE
  /\ first_tick' = TRUE
  /\ pc' = "test_while"
  /\ UNCHANGED <<ran, argv, devices, exit_code, atexit, output, handles, joy,
                 joy_idx, num_joysticks>>
  /\ UNCHANGED <<curses, COLS, countVars, event, screen, key, tick_polled,
                 rendered, tick_base, tick_events, envVars>>

(***************************************************************************)
(* Test mode: the polling loop.                                            *)
(***************************************************************************)
\* while (!quit) { SDL_Delay(10); ...
TestLoopOn == quit = 0

TestWhile ==
  /\ pc = "test_while"
  /\ IF TestLoopOn
     THEN /\ pc' = "test_poll"
          /\ tick_polled' = 0
          /\ rendered' = FALSE
          /\ tick_base' = Snapshot(axes, buttons, hats, balls)
          /\ tick_events' = <<>>
     ELSE /\ pc' = "test_cleanup"
          /\ UNCHANGED <<tick_polled, rendered, tick_base, tick_events>>
  /\ UNCHANGED <<ran, argv, devices, exit_code, atexit, output, handles, joy,
                 joy_idx, num_joysticks>>
  /\ UNCHANGED <<curses, COLS, countVars, snapVars, quit, event,
                 something_new, screen, key, first_tick, envVars>>

\* Mutant: the assertion is off by one.
AssertIndexOffByOne(i, n) == i <= n

\* assert(index < count)
AssertIndex(i, n) == i < n

\* The assertion the switch makes on event e, TRUE where it makes none.
AssertOf(e) ==
  CASE e.type = "SDL_JOYAXISMOTION" -> AssertIndex(e.idx, num_axes)
    [] e.type \in {"SDL_JOYBUTTONDOWN", "SDL_JOYBUTTONUP"} ->
         AssertIndex(e.idx, num_buttons)
    [] e.type = "SDL_JOYHATMOTION" -> AssertIndex(e.idx, num_hats)
    [] e.type = "SDL_JOYBALLMOTION" -> AssertIndex(e.idx, num_balls)
    [] OTHER -> TRUE

\* Mutant: the deltas are accumulated (+=) instead of stored.
StoreBallSum(arr, k, dx, dy) ==
  Store(Store(arr, 2 * k, arr[2 * k] + dx), 2 * k + 1, arr[2 * k + 1] + dy)

\* balls[2*k + 0] = xrel; balls[2*k + 1] = yrel;
StoreBall(arr, k, dx, dy) == Store(Store(arr, 2 * k, dx), 2 * k + 1, dy)

\* Mutant: every case assigns quit, so a later event lowers it again.
QuitAfterReset(e, q) == IF e.type = "SDL_QUIT" THEN 1 ELSE 0

\* Mutant: the default case falls through into case SDL_QUIT.
QuitAfterUnhandled(e, q) ==
  IF e.type \in {"SDL_JOYAXISMOTION", "SDL_JOYBUTTONDOWN", "SDL_JOYBUTTONUP",
                 "SDL_JOYHATMOTION", "SDL_JOYBALLMOTION"}
  THEN q ELSE 1

\* case SDL_QUIT: quit = 1;   -- no other case assigns quit
QuitAfter(e, q) == IF e.type = "SDL_QUIT" THEN 1 ELSE q

\* The assignments of the switch on event e.
ApplyEvent(e) ==
  /\ axes' = IF e.type = "SDL_JOYAXISMOTION"
             THEN Store(axes, e.idx, e.val) ELSE axes
  /\ buttons' = IF e.type \in {"SDL_JOYBUTTONDOWN", "SDL_JOYBUTTONUP"}
                THEN Store(buttons, e.idx, e.val) ELSE buttons
  /\ hats' = IF e.type = "SDL_JOYHATMOTION"
             THEN Store(hats, e.idx, e.val) ELSE hats
  /\ balls' = IF e.type = "SDL_JOYBALLMOTION"
              THEN StoreBall(balls, e.idx, e.val, e.yrel) ELSE balls
  /\ quit' = QuitAfter(e, quit)
  /\ output' =
       CASE e.type = "SDL_QUIT" -> Printf("Recieved interrupt, exiting", <<>>)
         [] e.type \in {"SDL_JOYAXISMOTION", "SDL_JOYBUTTONDOWN",
                        "SDL_JOYBUTTONUP", "SDL_JOYHATMOTION",
                        "SDL_JOYBALLMOTION"} -> output
         [] OTHER -> Eprintf("Unhandled event type", <<e.type>>)

\* Mutant: an if in place of the while, so a drain polls one event at most.
PollMoreOnce == queue # <<>> /\ tick_polled = 0

\* Mutant: the inner loop also tests quit, so the drain stops at a Quit.
PollMoreUnlessQuit == queue # <<>> /\ quit = 0

\* The condition of the inner loop: SDL_PollEvent(&event) found an event.
PollMore == queue # <<>>

\* while (SDL_PollEvent(&event)) { something_new = TRUE; switch ... }
TestPoll ==
  /\ pc = "test_poll"
  /\ IF PollMore
     THEN /\ event' = Head(queue)
          /\ queue' = Tail(queue)
          /\ something_new' = TRUE
          /\ tick_polled' = tick_polled + 1
          /\ tick_events' = Append(tick_events, event')
          /\ IF AssertOf(event')
             THEN /\ ApplyEvent(event')
                  /\ UNCHANGED pc
             ELSE /\ pc' = "aborted"
                  /\ output' = Eprintf("Assertion failed", <<>>)
                  /\ UNCHANGED <<snapVars, quit>>
     ELSE /\ pc' = "test_render"
          /\ UNCHANGED <<event, queue, something_new, tick_polled,
                         tick_events, snapVars, quit, output>>
  /\ UNCHANGED <<ran, argv, devices, exit_code, atexit, handles, joy, joy_idx,
                 num_joysticks>>
  /\ UNCHANGED <<curses, COLS, countVars, screen, key, first_tick, rendered,
                 tick_base, arrived, wait_ret>>

\* Mutant: the render is not gated.
RenderAlways == TRUE

\* if (something_new)
\*   { move(0,0); printw ...; refresh(); something_new = FALSE; }
RenderGate == something_new

\* Mutant: the render does not clear something_new.
TestRenderKeepsFlag ==
  /\ pc = "test_render"
  /\ IF RenderGate
     THEN /\ screen' = Paint(joy_idx, COLS, axes, num_axes, buttons,
                             num_buttons, hats, num_hats, balls, num_balls)
          /\ rendered' = TRUE
     ELSE UNCHANGED <<screen, rendered>>
  /\ UNCHANGED something_new
  /\ pc' = "test_getch"
  /\ tick_base' = NoSnapshot
  /\ tick_events' = <<>>
  /\ UNCHANGED <<ran, argv, devices, exit_code, atexit, output, handles, joy,
                 joy_idx, num_joysticks>>
  /\ UNCHANGED <<curses, COLS, countVars, snapVars, quit, event, key,
                 tick_polled, first_tick, envVars>>

TestRender ==
  /\ pc = "test_render"
  /\ IF RenderGate
     THEN /\ screen' = Paint(joy_idx, COLS, axes, num_axes, buttons,
                             num_buttons, hats, num_hats, balls, num_balls)
          /\ something_new' = FALSE
          /\ rendered' = TRUE
     ELSE UNCHANGED <<screen, something_new, rendered>>
  /\ pc' = "test_getch"
  /\ tick_base' = NoSnapshot
  /\ tick_events' = <<>>
  /\ UNCHANGED <<ran, argv, devices, exit_code, atexit, output, handles, joy,
                 joy_idx, num_joysticks>>
  /\ UNCHANGED <<curses, COLS, countVars, snapVars, quit, event, key,
                 tick_polled, first_tick, envVars>>

\* if (getch() == 3) quit = 1;
IsInterrupt(k) == k = CTRL_C

TestGetch ==
  /\ pc = "test_getch"
  /\ key' \in Keys
  /\ quit' = IF IsInterrupt(key') THEN 1 ELSE quit
  /\ first_tick' = FALSE
  /\ pc' = "test_while"
  /\ UNCHANGED <<ran, argv, devices, exit_code, atexit, output, handles, joy,
                 joy_idx, num_joysticks>>
  /\ UNCHANGED <<curses, COLS, countVars, snapVars, event, something_new,
                 screen, tick_polled, rendered, tick_base, tick_events,
                 envVars>>

\* free(balls); free(hats); free(buttons); free(axes); endwin();
TestCleanup ==
  /\ pc = "test_cleanup"
  /\ axes' = calloc(0)
  /\ buttons' = calloc(0)
  /\ hats' = calloc(0)
  /\ balls' = calloc(0)
  /\ curses' = FALSE
  /\ pc' = "return"
  /\ UNCHANGED <<ran, argv, devices, exit_code, atexit, output, handles, joy,
                 joy_idx, num_joysticks>>
  /\ UNCHANGED <<COLS, countVars, loopVars, envVars>>

(***************************************************************************)
(* Event-log mode.                                                         *)
(***************************************************************************)
EventParse ==
  /\ pc = "event"
  /\ ParseIndex("event_open")
  /\ UNCHANGED modeVars
  /\ UNCHANGED <<ran, argv, devices, atexit, joy, num_joysticks>>

\* joy = SDL_JoystickOpen(joy_idx); if (!joy) ... else { print_joystick_info;
\* printf("Entering joystick test loop ..."); int quit = 0;
EventOpen ==
  /\ pc = "event_open"
  /\ \E ok \in OpenResults(joy_idx) :
       IF ok
       THEN /\ joy' = <<joy_idx>>
            /\ handles' = handles \cup {joy_idx}
            /\ output' = Append(Printf("joystick info", <<joy_idx>>),
                                Line("stdout", "Entering joystick test loop",
                                     <<>>))
            /\ pc' = "event_wait"
       ELSE /\ joy' = <<>>
            /\ output' = Eprintf("Unable to open joystick", <<joy_idx>>)
            /\ pc' = "event_trailer"
            /\ UNCHANGED handles
  /\ quit' = 0
  /\ UNCHANGED <<ran, argv, devices, exit_code, atexit, joy_idx,
                 num_joysticks>>
  /\ UNCHANGED <<curses, COLS, countVars, snapVars, event, something_new,
                 screen, key, tick_polled, first_tick, rendered, tick_base,
                 tick_events, envVars>>

\* The line the switch of the event loop prints for event e.
EventLine(e) ==
  CASE e.type = "SDL_QUIT" ->
         Line("stdout", "Recieved interrupt, exiting", <<>>)
    [] e.type \in {"SDL_JOYAXISMOTION", "SDL_JOYBUTTONDOWN",
                   "SDL_JOYBUTTONUP", "SDL_JOYHATMOTION"} ->
         Line("stdout", e.type, <<e.idx, e.val>>)
    [] e.type = "SDL_JOYBALLMOTION" ->
         Line("stdout", e.type, <<e.idx, e.val, e.yrel>>)
    [] OTHER -> Line("stderr", "Unhandled event type", <<e.type>>)

\* Mutant: the loop condition does not test quit.
EventLoopAlways == TRUE

\* The first operand of the loop condition: !quit
EventLoopOn == quit = 0

\* while (!quit && SDL_WaitEvent(&event)) { switch ... }
\* SDL_WaitEvent blocks until an event is queued and returns 1, or returns 0
\* on an error.
EventWait ==
  /\ pc = "event_wait"
  /\ IF ~EventLoopOn
     THEN /\ pc' = "event_close"
          /\ UNCHANGED <<event, queue, quit, output, wait_ret>>
     ELSE \E got \in {0, 1} :
            /\ wait_ret' = got
            /\ IF got = 1
               THEN /\ queue # <<>>
                    /\ event' = Head(queue)
                    /\ queue' = Tail(queue)
                    /\ output' = Append(output, EventLine(event'))
                    /\ quit' = IF event'.type = "SDL_QUIT" THEN 1 ELSE quit
                    /\ UNCHANGED pc
               ELSE /\ pc' = "event_close"
                    /\ UNCHANGED <<event, queue, quit, output>>
  /\ UNCHANGED <<ran, argv, devices, exit_code, atexit, handles, joy, joy_idx,
                 num_joysticks>>
  /\ UNCHANGED <<curses, COLS, countVars, snapVars, something_new, screen,
                 key, tick_polled, first_tick, rendered, tick_base,
                 tick_events, arrived>>

\* SDL_JoystickClose(joy);
EventClose ==
  /\ pc = "event_close"
  /\ handles' = Closed(joy)
  /\ pc' = "event_trailer"
  /\ UNCHANGED modeVars
  /\ UNCHANGED <<ran, argv, devices, exit_code, atexit, output, joy, joy_idx,
                 num_joysticks>>

\* Mutant: the diagnostic is written on the open-failure path only.
EventTrailerOnFailure ==
  /\ pc = "event_trailer"
  /\ output' = IF joy = <<>> THEN Eprintf("Unable to init SDL", <<>>)
               ELSE output
  /\ pc' = "return"
  /\ UNCHANGED modeVars
  /\ UNCHANGED <<ran, argv, devices, exit_code, atexit, handles, joy, joy_idx,
                 num_joysticks>>

\* fprintf(stderr, "Unable to init SDL: %s\n", SDL_GetError());
EventTrailer ==
  /\ pc = "event_trailer"
  /\ output' = Eprintf("Unable to init SDL", <<>>)
  /\ pc' = "return"
  /\ UNCHANGED modeVars
  /\ UNCHANGED <<ran, argv, devices, exit_code, atexit, handles, joy, joy_idx,
                 num_joysticks>>

(***************************************************************************)
(* The input subsystem queues an event.                                    *)
(***************************************************************************)
Listening == pc \in {"test_while", "test_poll", "test_render", "test_getch",
                     "event_wait"}

Arrive ==
  /\ Listening
  /\ arrived < MaxEvents
  /\ Len(queue) < MaxQueue
  /\ \E e \in Events : queue' = Append(queue, e)
  /\ arrived' = arrived + 1
  /\ UNCHANGED wait_ret
  /\ UNCHANGED <<cliVars, ran, curses, COLS, countVars, snapVars, loopVars>>

Next ==
  \/ Start
  \/ SDLInit
  \/ Help
  \/ Dispatch
  \/ Return
  \/ ListNum
  \/ ListOpen
  \/ ListInfoClose
  \/ TestParse
  \/ TestOpen
  \/ InitScr
  \/ QueryAxes
  \/ QueryButtons
  \/ QueryHats
  \/ QueryBalls
  \/ TestAlloc
  \/ TestWhile
  \/ TestPoll
  \/ TestRender
  \/ TestGetch
  \/ TestCleanup
  \/ EventParse
  \/ EventOpen
  \/ EventWait
  \/ EventClose
  \/ EventTrailer
  \/ Arrive

Spec == Init /\ [][Next]_vars

\* The steps of the test loop never block: SDL_Delay returns, SDL_PollEvent
\* and getch (nodelay) are non-blocking.
TestStep == TestWhile \/ TestPoll \/ TestRender \/ TestGetch

\* The runs of test mode: main() entered with --test and an index text.
InitTest == Init /\ IsTest

NextTest ==
  \/ Start
  \/ SDLInit
  \/ Help
  \/ Dispatch
  \/ Return
  \/ TestParse
  \/ TestOpen
  \/ InitScr
  \/ QueryAxes
  \/ QueryButtons
  \/ QueryHats
  \/ QueryBalls
  \/ TestAlloc
  \/ TestWhile
  \/ TestPoll
  \/ TestRender
  \/ TestGetch
  \/ TestCleanup
  \/ Arrive

FairSpec == InitTest /\ [][NextTest]_vars /\ WF_vars(TestStep)

(***************************************************************************)
(* The render step on its own: test mode stands at the render after its    *)
(* first drain polled one event.                                           *)
(***************************************************************************)
\* The values of an Sint16 field (event.jaxis.value, axes[i]).
Sint16 == -32768..32767

\* The values of a hat over the four direction bits.
HatMasks == 0..(SDL_HAT_UP + SDL_HAT_RIGHT + SDL_HAT_DOWN + SDL_HAT_LEFT)

\* Terminal widths: len = COLS - 20 is 1..MaxBarLen, or 60 on an 80-column
\* terminal.
BarCols == (21..(20 + MaxBarLen)) \cup {80}

\* main() at "if (something_new)" of the first iteration, the drain having
\* polled the one in-range event e on the zeroed arrays; cols is COLS.
AtRender(e, cols) ==
  /\ argv = <<Prog, "--test", "1">>
  /\ devices = MaxJoysticks
  /\ pc = "test_render"
  /\ exit_code = -1
  /\ atexit = TRUE
  /\ output = <<>>
  /\ handles = {1}
  /\ joy = <<1>>
  /\ joy_idx = 1
  /\ num_joysticks = 0
  /\ curses = TRUE
  /\ COLS = cols
  /\ num_axes = NumAxes
  /\ num_buttons = NumButtons
  /\ num_hats = NumHats
  /\ num_balls = NumBalls
  /\ axes = IF e.type = "SDL_JOYAXISMOTION"
            THEN Store(calloc(NumAxes), e.idx, e.val) ELSE calloc(NumAxes)
  /\ buttons = calloc(NumButtons)
  /\ hats = IF e.type = "SDL_JOYHATMOTION"
            THEN Store(calloc(NumHats), e.idx, e.val) ELSE calloc(NumHats)
  /\ balls = calloc(2 * NumBalls)
  /\ quit = 0
  /\ event = e
  /\ something_new = TRUE
  /\ screen = NoScreen
  /\ key = ERR
  /\ queue = <<>>
  /\ arrived = 1
  /\ wait_ret = 1
  /\ ran = {"Test"}
  /\ tick_polled = 1
  /\ first_tick = TRUE
  /\ rendered = FALSE
  /\ tick_base = Snapshot(calloc(NumAxes), calloc(NumButtons),
                          calloc(NumHats), calloc(2 * NumBalls))
  /\ tick_events = <<e>>

\* Axis 0 holds any Sint16 value.
InitBar ==
  \E v \in Sint16, cols \in BarCols :
    AtRender(Ev("SDL_JOYAXISMOTION", 0, v, 0), cols)

\* One hat holds any combination of the four direction bits.
InitHat ==
  \E i \in 0..(NumHats - 1), h \in HatMasks, cols \in BarCols :
    AtRender(Ev("SDL_JOYHATMOTION", i, h, 0), cols)

NextRender == TestRender

BarSpec == InitBar /\ [][NextRender]_vars

HatSpec == InitHat /\ [][NextRender]_vars

(***************************************************************************)
(* Vocabulary of the properties.                                           *)
(***************************************************************************)
TestLoopPcs == {"test_while", "test_poll", "test_render", "test_getch"}

Ended == pc \in {"exited", "aborted"}

Said(fd, msg) ==
  \E i \in DOMAIN output : output[i].fd = fd /\ output[i].msg = msg

\* A step of the test loop that polled an event.
Polled == pc = "test_poll" /\ tick_polled' = tick_polled + 1

(***************************************************************************)
(* C1                                                                      *)
(***************************************************************************)
\* quit is raised only by a polled SDL_QUIT or by getch() returning 3.
C1_QuitSources ==
  [][(pc \in TestLoopPcs /\ quit = 0 /\ quit' # 0)
       => \/ (Polled /\ event'.type = "SDL_QUIT")
          \/ (pc = "test_getch" /\ key' = CTRL_C)]_vars

\* Once raised, quit stays raised whatever is polled next, and the next
\* evaluation of the loop condition leaves the loop: no further tick starts.
C1_NoFurtherTick ==
  [][(pc \in TestLoopPcs /\ quit # 0)
       => /\ pc' \in TestLoopPcs => quit' # 0
          /\ pc = "test_while" => pc' # "test_poll"
          /\ (Polled /\ event'.type = "SDL_QUIT") => quit' # 0]_vars

\* The loop is left for the cleanup only from the loop head, with quit raised.
C1_ExitAtHead ==
  [][(pc # "test_cleanup" /\ pc' = "test_cleanup")
       => (pc = "test_while" /\ quit # 0)]_vars

C2_NoEventsNoRender ==
  [][(pc = "test_render" /\ tick_polled = 0)
       => (~rendered' /\ screen' = screen)]_vars

\* C2 as amended: on every tick but the first in which the drain polled zero
\* events, the render step is not executed and the screen is unchanged; on
\* the first tick the render is executed even with zero events.
C2_NoEventsNoRenderAfterFirst ==
  [][(pc = "test_render" /\ tick_polled = 0)
       => IF first_tick
          THEN pc' = "test_getch" => (rendered' /\ screen'.drawn)
          ELSE ~rendered' /\ screen' = screen]_vars

\* A later tick polled nothing and went past the render step without drawing.
C2_Witness ==
  /\ pc = "test_getch"
  /\ ~first_tick
  /\ tick_polled = 0
  /\ ~rendered
  /\ screen.drawn

(***************************************************************************)
(* C3                                                                      *)
(***************************************************************************)
\* C3: on every path by which the process ends in test or event-log mode
\* after the device was opened, the joystick handle has been closed and, if
\* curses was initialised, endwin has restored the terminal.
C3_ResourcesReleased ==
  (Ended /\ (IsTest \/ IsEvent) /\ joy # <<>>)
    => (handles = {} /\ ~curses)

(***************************************************************************)
(* C4                                                                      *)
(***************************************************************************)
\* The count an event's index is measured against, -1 for no index.
CountFor(e) ==
  CASE e.type = "SDL_JOYAXISMOTION" -> num_axes
    [] e.type \in {"SDL_JOYBUTTONDOWN", "SDL_JOYBUTTONUP"} -> num_buttons
    [] e.type = "SDL_JOYHATMOTION" -> num_hats
    [] e.type = "SDL_JOYBALLMOTION" -> num_balls
    [] OTHER -> -1

\* The four blocks hold exactly the entries calloc gave them.
BlocksIntact ==
  /\ DOMAIN axes = 0..(num_axes - 1)
  /\ DOMAIN buttons = 0..(num_buttons - 1)
  /\ DOMAIN hats = 0..(num_hats - 1)
  /\ DOMAIN balls = 0..(2 * num_balls - 1)

\* C4: in test mode every write to axes, buttons, hats or balls uses an index
\* below the array's length, and an event whose index is at or beyond the
\* count aborts the process before any entry is written.
C4_WritesInBounds ==
  /\ [](pc \in TestLoopPcs \cup {"aborted"} => BlocksIntact)
  /\ [][(Polled /\ CountFor(event') >= 0 /\ event'.idx >= CountFor(event'))
          => (pc' = "aborted" /\ UNCHANGED snapVars)]_vars
  /\ [][(Polled /\ CountFor(event') >= 0 /\ event'.idx < CountFor(event'))
          => pc' # "aborted"]_vars

\* An out-of-range event aborted the process after an in-range write.
C4_Witness ==
  /\ pc = "aborted"
  /\ event.idx >= CountFor(event)
  /\ \E i \in DOMAIN axes : axes[i] # 0

(***************************************************************************)
(* C5                                                                      *)
(***************************************************************************)
\* C5: when --test N / -t N or --event N / -e N is given a well-formed index
\* whose device cannot be opened, the process exits with code 1.
C5_OpenFailureExitsOne ==
  (pc = "exited" /\ (IsTest \/ IsEvent)
     /\ Said("stderr", "Unable to open joystick"))
    => exit_code = 1

(***************************************************************************)
(* C6                                                                      *)
(***************************************************************************)
NoModeMatches == ~(IsHelp \/ IsVersion \/ IsList \/ IsTest \/ IsEvent)

\* C6: an invocation with at least one argument that matches none of help,
\* version, list, test N, event N writes a usage error to the diagnostic
\* stream and exits with a non-zero code (SDL having initialised).
C6_UnknownArgumentsExitNonZero ==
  (pc = "exited" /\ argc >= 2 /\ NoModeMatches /\ atexit)
    => (Said("stderr", "unknown arguments") /\ exit_code # 0)

(***************************************************************************)
(* C7                                                                      *)
(***************************************************************************)
\* C7: the dispatch executes exactly one of the Help, Version, List, Test,
\* EventLog, Error behaviours per invocation; --help / -h prints the help
\* text, emits no usage-error message and exits 0.
C7_ExactlyOneMode ==
  (pc = "exited" /\ (atexit \/ argc = 1))
    => /\ Cardinality(ran) = 1
       /\ IsHelp => /\ Said("stdout", "help")
                    /\ ~Said("stderr", "unknown arguments")
                    /\ exit_code = 0

(***************************************************************************)
(* C8                                                                      *)
(***************************************************************************)
\* The device indices list mode has visited, in order: one per line that
\* reports an open failure or prints a capability summary.
RECURSIVE Visited(_)
Visited(out) ==
  IF out = <<>> THEN <<>>
  ELSE LET l == out[Len(out)]
           rest == Visited(SubSeq(out, 1, Len(out) - 1))
       IN  IF l.msg \in {"Unable to open joystick", "joystick info"}
           THEN Append(rest, l.arg[1])
           ELSE rest

UpTo(n) == [i \in 1..n |-> i - 1]

\* C8: list mode with n devices visits every index 0..n-1 exactly once in
\* ascending order, an open failure being reported and the iteration going
\* on; every opened device is closed before the next is opened (at most one
\* handle open at any time, none at exit); with n = 0 it prints "No joysticks
\* were found"; the process exits 0.
C8_ListVisitsAll ==
  IsList =>
    /\ Cardinality(handles) <= 1
    /\ pc = "list_loop" => (handles = {} /\ Visited(output) = UpTo(joy_idx))
    /\ pc = "list_info" => Visited(output) = UpTo(joy_idx)
    /\ (pc = "return" \/ (pc = "exited" /\ atexit)) =>
         /\ handles = {}
         /\ Visited(output) = UpTo(devices)
         /\ devices = 0 <=> Said("stdout", "No joysticks were found")
    /\ (pc = "exited" /\ atexit) => exit_code = 0

\* Two devices: the open of index 0 failed and was reported, index 1 was
\* opened, described and closed, and the process has ended.
C8_Witness ==
  /\ IsList
  /\ pc = "exited"
  /\ devices = 2
  /\ \E i, j \in DOMAIN output :
       /\ i < j
       /\ output[i] = Line("stderr", "Unable to open joystick", <<0>>)
       /\ output[j] = Line("stdout", "joystick info", <<1>>)

(***************************************************************************)
(* C9                                                                      *)
(***************************************************************************)
\* C9 as claimed (the part a finite run refutes): the event loop stops after
\* a Quit event and for no other reason.
C9_StopsOnlyOnQuit == pc = "event_close" => quit # 0

\* C9 as amended: each event the blocking wait delivers produces exactly one
\* output line, in arrival order; the loop stops after a Quit event or when
\* the wait itself fails (SDL_WaitEvent returns 0), and for no other reason;
\* no event after the Quit is consumed.
C9_OneLinePerEventUntilQuit ==
  /\ [](pc = "event_close" => (quit # 0 \/ wait_ret = 0))
  /\ [][pc = "event_wait" =>
          \/ /\ quit = 0 /\ queue # <<>>
             /\ queue' = Tail(queue)
             /\ Len(output') = Len(output) + 1
             /\ SubSeq(output', 1, Len(output)) = output
             /\ output'[Len(output')] = EventLine(Head(queue))
             /\ quit' # 0 <=> Head(queue).type = "SDL_QUIT"
             /\ pc' = "event_wait"
          \/ /\ pc' = "event_close"
             /\ UNCHANGED <<queue, output, quit>>
          \/ /\ \E e \in Events : queue' = Append(queue, e)
             /\ UNCHANGED <<pc, output, quit>>]_vars

\* The loop was left after a Quit while a later event was still queued.
C9_Witness ==
  /\ pc = "event_close"
  /\ quit # 0
  /\ wait_ret = 1
  /\ queue # <<>>
  /\ Said("stdout", "Recieved interrupt, exiting")

(***************************************************************************)
(* C10                                                                     *)
(***************************************************************************)
IsButton(e) == e.type \in {"SDL_JOYBUTTONDOWN", "SDL_JOYBUTTONUP"}

\* C10: applying an in-range event in test mode overwrites the one entry the
\* event addresses with the event's value (a ball's pair with the event's
\* delta, never a sum) and leaves every other entry of the four arrays as it
\* was; the next render shows exactly the stored values.
C10_PointOverwrite ==
  /\ [][(Polled /\ pc' # "aborted") =>
          LET e == event' IN
          /\ \A i \in 0..(num_axes - 1) :
               axes'[i] = IF e.type = "SDL_JOYAXISMOTION" /\ e.idx = i
                          THEN e.val ELSE axes[i]
          /\ \A i \in 0..(num_buttons - 1) :
               buttons'[i] = IF IsButton(e) /\ e.idx = i
                             THEN e.val ELSE buttons[i]
          /\ \A i \in 0..(num_hats - 1) :
               hats'[i] = IF e.type = "SDL_JOYHATMOTION" /\ e.idx = i
                          THEN e.val ELSE hats[i]
          /\ \A k \in 0..(num_balls - 1) :
               <<balls'[2 * k], balls'[2 * k + 1]>> =
                 IF e.type = "SDL_JOYBALLMOTION" /\ e.idx = k
                 THEN <<e.val, e.yrel>>
                 ELSE <<balls[2 * k], balls[2 * k + 1]>>]_vars
  /\ [][(pc = "test_render" /\ rendered') =>
          /\ \A i \in 0..(num_axes - 1) : screen'.axes[i].value = axes[i]
          /\ \A i \in 0..(num_buttons - 1) :
               screen'.buttons[i].value = buttons[i]
          /\ \A i \in 0..(num_hats - 1) : screen'.hats[i].value = hats[i]
          /\ \A k \in 0..(num_balls - 1) :
               screen'.balls[k] = <<balls[2 * k], balls[2 * k + 1]>>]_vars

\* Axis 0 was moved and drawn while axis 1 and the other arrays kept their
\* zeroes, and the ball shows the delta of the one event applied to it.
C10_Witness ==
  /\ pc = "test_getch"
  /\ rendered
  /\ num_axes >= 2
  /\ axes[0] = 32767 /\ axes[1] = 0
  /\ screen.axes[0].value = 32767 /\ screen.axes[1].value = 0
  /\ balls[0] = 1 /\ balls[1] = -1
  /\ screen.balls[0] = <<1, -1>>
  /\ \A i \in DOMAIN buttons : buttons[i] = 0
  /\ \A i \in DOMAIN hats : hats[i] = 0

(***************************************************************************)
(* C11                                                                     *)
(***************************************************************************)
\* The cells of a drawn bar that hold '#'.
Marks(bar) == {i \in DOMAIN bar : bar[i] = "#"}

\* C11: for every axis value v in -32768..32767 and every bar width w >= 1
\* the position (v + 32767) * (w - 1) / 65534 lies in 0..w-1, is 0 at
\* v = -32768 and w - 1 at v = 32767, so that the drawn bar has w cells of
\* which exactly one, the one at that position, is '#'.
C11_BarPositionInside ==
  screen.drawn =>
    \A i \in DOMAIN screen.axes :
      LET v == screen.axes[i].value
          bar == screen.axes[i].bar
          w == COLS - 20
      IN  /\ w >= 1
          /\ DOMAIN bar = 0..(w - 1)
          /\ Cardinality(Marks(bar)) = 1
          /\ \A p \in Marks(bar) : p = CDiv((v + 32767) * (w - 1), 65534)
          /\ v = -32768 => Marks(bar) = {0}
          /\ v = 32767 => Marks(bar) = {w - 1}

\* The highest axis value was drawn on an 80-column terminal: the mark is in
\* the last of the 60 cells.
C11_Witness ==
  /\ pc = "test_getch"
  /\ rendered
  /\ COLS = 80
  /\ screen.axes[0].value = 32767
  /\ screen.axes[0].bar[59] = "#"

(***************************************************************************)
(* C12                                                                     *)
(***************************************************************************)
\* The cells of a drawn hat diagram that hold 'O': <<row, column>>, counted
\* 1..3 from the top left.
Cells(hr) == {rc \in (1..3) \X (1..3) : hr.cells[rc[1]][rc[2]] = "O"}

\* A direction a hat can point in: not up with down, not left with right.
ValidHat(h) ==
  /\ ~(HasBit(h, SDL_HAT_UP) /\ HasBit(h, SDL_HAT_DOWN))
  /\ ~(HasBit(h, SDL_HAT_LEFT) /\ HasBit(h, SDL_HAT_RIGHT))

\* The cell a valid direction belongs to.
CellOf(h) ==
  <<IF HasBit(h, SDL_HAT_UP) THEN 1
    ELSE IF HasBit(h, SDL_HAT_DOWN) THEN 3 ELSE 2,
    IF HasBit(h, SDL_HAT_LEFT) THEN 1
    ELSE IF HasBit(h, SDL_HAT_RIGHT) THEN 3 ELSE 2>>

Indicator(h, bit) == IF HasBit(h, bit) THEN "1" ELSE "0"

\* C12: for each of the nine valid directions the diagram marks 'O' in one
\* cell only - the centre for 0, the edge middle for one bit, the corner for
\* two orthogonal bits - and the up/down/left/right indicators show '1' for
\* exactly the bits that are set.
C12_ValidHatOneCell ==
  screen.drawn =>
    \A i \in DOMAIN screen.hats :
      LET hr == screen.hats[i]
          h == hr.value
      IN  ValidHat(h) =>
            /\ Cells(hr) = {CellOf(h)}
            /\ h = 0 => Cells(hr) = {<<2, 2>>}
            /\ h = SDL_HAT_UP + SDL_HAT_LEFT => Cells(hr) = {<<1, 1>>}
            /\ hr.up = Indicator(h, SDL_HAT_UP)
            /\ hr.down = Indicator(h, SDL_HAT_DOWN)
            /\ hr.left = Indicator(h, SDL_HAT_LEFT)
            /\ hr.right = Indicator(h, SDL_HAT_RIGHT)

\* Down|left was drawn: the bottom-left corner only, down and left showing 1.
C12_Witness ==
  /\ pc = "test_getch"
  /\ rendered
  /\ screen.hats[0].value = SDL_HAT_DOWN + SDL_HAT_LEFT
  /\ Cells(screen.hats[0]) = {<<3, 1>>}
  /\ screen.hats[0].down = "1" /\ screen.hats[0].left = "1"
  /\ screen.hats[0].up = "0" /\ screen.hats[0].right = "0"

(***************************************************************************)
(* C20                                                                     *)
(***************************************************************************)
\* C20: for each of the 16 combinations of the four direction bits the
\* diagram marks at least one cell, and it marks exactly one cell if and only
\* if the combination holds neither up with down nor left with right.
C20_HatCellCount ==
  screen.drawn =>
    \A i \in DOMAIN screen.hats :
      LET hr == screen.hats[i]
      IN  /\ hr.value \in HatMasks
          /\ Cardinality(Cells(hr)) >= 1
          /\ Cardinality(Cells(hr)) = 1 <=> ValidHat(hr.value)

\* Up|down was drawn: the top middle and the bottom middle are both marked.
C20_Witness ==
  /\ pc = "test_getch"
  /\ rendered
  /\ screen.hats[0].value = SDL_HAT_UP + SDL_HAT_DOWN
  /\ Cells(screen.hats[0]) = {<<1, 2>>, <<3, 2>>}

(***************************************************************************)
(* C13                                                                     *)
(***************************************************************************)
\* The position of the first digit of a text that is a base-10 integer:
\* white space, then an optional sign, then one or more digits up to the end
\* of the text; 0 if the text is not of that form.
FirstDigit(cs) ==
  LET ks == {k \in 1..Len(cs) :
               /\ \A j \in k..Len(cs) : cs[j] \in Digits
               /\ \/ \A j \in 1..(k - 1) : IsSpace(cs[j])
                  \/ /\ k >= 2
                     /\ cs[k - 1] \in {"+", "-"}
                     /\ \A j \in 1..(k - 2) : IsSpace(cs[j])}
  IN  IF ks = {} THEN 0 ELSE CHOOSE k \in ks : \A m \in ks : k <= m

IsIntegerText(cs) == FirstDigit(cs) # 0

IsNegativeText(cs) == FirstDigit(cs) >= 2 /\ cs[FirstDigit(cs) - 1] = "-"

\* A digit sequence without its leading zeroes.
RECURSIVE StripZeroes(_)
StripZeroes(ds) ==
  IF Len(ds) > 1 /\ ds[1] = "0" THEN StripZeroes(Tail(ds)) ELSE ds

\* The number a sequence of at most nine digits denotes.
RECURSIVE Num(_)
Num(ds) ==
  IF ds = <<>> THEN 0
  ELSE 10 * Num(SubSeq(ds, 1, Len(ds) - 1)) + DigitVal(ds[Len(ds)])

\* The integer an integer text denotes, as <<n>>, or <<>> if that integer is
\* outside INT_MIN..INT_MAX.
Denoted(cs) ==
  LET ds == StripZeroes(SubSeq(cs, FirstDigit(cs), Len(cs)))
      neg == IsNegativeText(cs)
      hi == Num(SubSeq(ds, 1, 9))
      lo == DigitVal(ds[10])
  IN  IF Len(ds) <= 9 THEN <<IF neg THEN -Num(ds) ELSE Num(ds)>>
      ELSE IF Len(ds) = 10 /\ (hi < 214748364
                               \/ (hi = 214748364
                                     /\ lo <= (IF neg THEN 8 ELSE 7)))
      THEN <<IF neg THEN -10 * hi - lo ELSE 10 * hi + lo>>
      ELSE <<>>

\* C13: str2int succeeds and stores n exactly when the whole argument text is
\* a base-10 integer denoting n within the int range; otherwise (no digits,
\* trailing characters, value outside the int range) it fails, joy_idx is
\* left untouched, the offending text is echoed to stderr and the process
\* exits 1 before any device is opened.
C13_ParsesExactlyIntegers ==
  [][(pc = "test" \/ pc = "event") =>
       LET cs == Chars(argv[3])
       IN  IF IsIntegerText(cs) /\ Denoted(cs) # <<>>
           THEN /\ joy_idx' = Denoted(cs)[1]
                /\ pc' \in {"test_open", "event_open"}
                /\ UNCHANGED output
           ELSE /\ pc' = "exited"
                /\ exit_code' = 1
                /\ UNCHANGED <<joy_idx, joy>>
                /\ handles' = {}
                /\ output' =
                     Eprintf("JOYSTICKNUM argument must be a number",
                             <<argv[3]>>)]_vars

(***************************************************************************)
(* C14                                                                     *)
(***************************************************************************)
OpenFailed == Said("stderr", "Unable to open joystick")

\* Nothing of the else branch of the open has run: no initscr (COLS is still
\* unset), no capability count, no calloc, no iteration of the loop.
ElseBranchUntouched ==
  /\ ~curses
  /\ COLS = 0
  /\ num_axes = 0 /\ num_buttons = 0 /\ num_hats = 0 /\ num_balls = 0
  /\ DOMAIN axes = {} /\ DOMAIN buttons = {}
  /\ DOMAIN hats = {} /\ DOMAIN balls = {}
  /\ ~something_new
  /\ ~first_tick
  /\ tick_polled = 0
  /\ ~rendered
  /\ screen = NoScreen
  /\ event = NoEvent
  /\ quit = 0
  /\ arrived = 0

\* C14: in test mode a failed open prints the open-failure message and the
\* program goes on to its end; the terminal is never initialised, the
\* snapshot never allocated and no iteration of the poll/render loop runs.
C14_OpenFailureSkipsLoop ==
  /\ [](IsTest /\ (pc = "test_open" \/ OpenFailed) => ElseBranchUntouched)
  /\ [](IsTest /\ OpenFailed =>
          /\ pc \in {"return", "exited"}
          /\ joy = <<>>
          /\ output = <<Line("stderr", "Unable to open joystick",
                              <<joy_idx>>)>>)
  /\ [][(pc = "test_open" /\ joy' = <<>>)
          => (pc' = "return" /\ OpenFailed')]_vars

\* --test 42 with fewer devices: the open failed, the message was written and
\* the process has ended without the terminal ever being initialised.
C14_Witness ==
  /\ IsTest
  /\ pc = "exited"
  /\ joy_idx = 42
  /\ output = <<Line("stderr", "Unable to open joystick", <<42>>)>>
  /\ COLS = 0

(***************************************************************************)
(* C15                                                                     *)
(***************************************************************************)
\* C15 as claimed: once a Quit event has been polled in a drain, no event
\* queued behind it is polled or applied to the snapshot in that drain.
C15_DrainStopsAtQuit ==
  [][(pc = "test_poll" /\ quit # 0)
       => (tick_polled' = tick_polled /\ UNCHANGED snapVars)]_vars

\* The entry event e addresses holds e's value in the next state.
Applied(e) ==
  CASE e.type = "SDL_JOYAXISMOTION" -> axes'[e.idx] = e.val
    [] IsButton(e) -> buttons'[e.idx] = e.val
    [] e.type = "SDL_JOYHATMOTION" -> hats'[e.idx] = e.val
    [] e.type = "SDL_JOYBALLMOTION" ->
         balls'[2 * e.idx] = e.val /\ balls'[2 * e.idx + 1] = e.yrel
    [] OTHER -> UNCHANGED snapVars

\* C15 as amended: a polled Quit raises quit and prints the notice, and the
\* drain goes on: every event queued behind the Quit is polled in the same
\* drain and applied to the snapshot (or aborts on its assertion), quit
\* staying raised; the drain ends only when the queue is empty.
C15_DrainGoesOnAfterQuit ==
  /\ [][(Polled /\ event'.type = "SDL_QUIT")
          => /\ quit' = 1
             /\ output' = Printf("Recieved interrupt, exiting", <<>>)
             /\ pc' = "test_poll"]_vars
  /\ [][(pc = "test_poll" /\ quit # 0 /\ queue # <<>> /\ arrived' = arrived)
          => /\ tick_polled' = tick_polled + 1
             /\ event' = Head(queue)
             /\ queue' = Tail(queue)
             /\ quit' # 0
             /\ \/ pc' = "aborted" /\ ~AssertIndex(event'.idx, CountFor(event'))
                \/ pc' = "test_poll" /\ Applied(event')]_vars
  /\ [][(pc = "test_poll" /\ pc' = "test_render") => queue = <<>>]_vars

\* An axis event was queued behind a Quit; both were polled in one drain and
\* the axis value is in the snapshot.
C15_Witness ==
  /\ pc = "test_poll"
  /\ quit # 0
  /\ tick_polled = 2
  /\ arrived = 2
  /\ queue = <<>>
  /\ event.type = "SDL_JOYAXISMOTION"
  /\ axes[event.idx] = event.val
  /\ output = <<Line("stdout", "Recieved interrupt, exiting", <<>>)>>

(***************************************************************************)
(* C16                                                                     *)
(***************************************************************************)
\* C16: the dirty flag is true when the loop is entered, so the first tick
\* renders even with no event polled; a polled event sets it; each render
\* clears it, so it is false at the key-read that ends every tick; and a
\* tick renders if and only if the flag was true after the tick's drain.
C16_DirtyFlagLifecycle ==
  /\ [][pc = "test_alloc" => (something_new' /\ pc' = "test_while")]_vars
  /\ [](pc = "test_getch" /\ first_tick => rendered)
  /\ [][Polled => something_new']_vars
  /\ [][(pc = "test_render" /\ rendered') => ~something_new']_vars
  /\ [](pc = "test_getch" => ~something_new)
  /\ [][(pc = "test_render" /\ pc' = "test_getch")
          => /\ rendered' <=> something_new
             /\ ~rendered
             /\ rendered' => screen'.drawn
             /\ ~rendered' => screen' = screen]_vars
  /\ [][something_new' # something_new
          => (pc = "test_alloc" \/ Polled \/ pc = "test_render")]_vars

\* A tick after the first polled an event, rendered, and stands at the
\* key-read with the flag cleared.
C16_Witness ==
  /\ pc = "test_getch"
  /\ ~first_tick
  /\ tick_polled >= 1
  /\ rendered
  /\ ~something_new
  /\ quit = 0

(***************************************************************************)
(* C17                                                                     *)
(***************************************************************************)
\* An event of a kind the switch has no case for.
Unhandled(e) ==
  e.type \notin {"SDL_JOYAXISMOTION", "SDL_JOYBUTTONDOWN", "SDL_JOYBUTTONUP",
                 "SDL_JOYHATMOTION", "SDL_JOYBALLMOTION", "SDL_QUIT"}

\* C17 as claimed: polling an event of unrecognized kind writes one
\* diagnostic line and leaves the snapshot arrays, the quit flag and the
\* dirty flag as they were, so that a tick whose drain saw only unrecognized
\* events does not redraw.
C17_UnhandledLeavesFlag ==
  [][(Polled /\ Unhandled(event'))
       => /\ output' = Eprintf("Unhandled event type", <<event'.type>>)
          /\ UNCHANGED <<snapVars, quit, something_new>>]_vars

\* C17 as amended: polling an event of unrecognized kind writes one
\* diagnostic line and leaves the snapshot arrays and the quit flag as they
\* were, but sets the dirty flag like any polled event, so that the tick
\* redraws the (unchanged) snapshot; the loop continues.
C17_UnhandledSetsFlagOnly ==
  /\ [][(Polled /\ Unhandled(event'))
          => /\ output' = Eprintf("Unhandled event type", <<event'.type>>)
             /\ UNCHANGED <<snapVars, quit>>
             /\ something_new'
             /\ pc' = "test_poll"]_vars
  /\ [][(pc = "test_render" /\ pc' = "test_getch" /\ tick_polled >= 1)
          => /\ rendered'
             /\ screen' = Paint(joy_idx, COLS, axes, num_axes, buttons,
                                num_buttons, hats, num_hats, balls,
                                num_balls)]_vars

\* A tick after the first polled one unrecognized event and nothing else; it
\* has redrawn, and the loop goes on.
C17_Witness ==
  /\ pc = "test_getch"
  /\ ~first_tick
  /\ tick_polled = 1
  /\ Unhandled(event)
  /\ rendered
  /\ quit = 0
  /\ output = <<Line("stderr", "Unhandled event type", <<event.type>>)>>

(***************************************************************************)
(* C18                                                                     *)
(***************************************************************************)
\* The last line written is the "Unable to init SDL" diagnostic.
EndsWithInitDiagnostic ==
  /\ output # <<>>
  /\ output[Len(output)] = Line("stderr", "Unable to init SDL", <<>>)

\* C18: in event-log mode, once the index has parsed, every path ends by
\* writing "Unable to init SDL" to stderr: after the loop ended with a Quit
\* event, after it ended because the wait failed, and after a failed open.
C18_TrailingDiagnosticAlways ==
  /\ [](IsEvent /\ (pc = "return" \/ (pc = "exited" /\ exit_code = 0))
          => EndsWithInitDiagnostic)
  /\ [][(IsEvent /\ pc = "event_open" /\ joy' = <<>>)
          => (OpenFailed' /\ pc' = "event_trailer")]_vars
  /\ [][(pc = "event_wait" /\ pc' # "event_wait") => pc' = "event_close"]_vars
  /\ [][pc = "event_close" => pc' = "event_trailer"]_vars
  /\ [][pc = "event_trailer"
          => /\ output' = Eprintf("Unable to init SDL", <<>>)
             /\ pc' = "return"]_vars
  /\ [](IsEvent /\ pc = "exited" /\ exit_code # 0
          => \/ ~atexit
             \/ Said("stderr", "JOYSTICKNUM argument must be a number"))

\* The device was opened, a Quit event ended the loop, and the diagnostic
\* was still the last line written before the process ended with status 0.
C18_Witness ==
  /\ IsEvent
  /\ pc = "exited"
  /\ exit_code = 0
  /\ joy # <<>>
  /\ quit # 0
  /\ wait_ret = 1
  /\ Said("stdout", "Recieved interrupt, exiting")
  /\ EndsWithInitDiagnostic

(***************************************************************************)
(* C19                                                                     *)
(***************************************************************************)
\* Snapshot s with event e applied to it.
ApplyTo(s, e) ==
  CASE e.type = "SDL_JOYAXISMOTION" -> [s EXCEPT !.axes[e.idx] = e.val]
    [] IsButton(e) -> [s EXCEPT !.buttons[e.idx] = e.val]
    [] e.type = "SDL_JOYHATMOTION" -> [s EXCEPT !.hats[e.idx] = e.val]
    [] e.type = "SDL_JOYBALLMOTION" ->
         [s EXCEPT !.balls[2 * e.idx] = e.val,
                   !.balls[2 * e.idx + 1] = e.yrel]
    [] OTHER -> s

\* Snapshot s with the events es applied to it in order.
RECURSIVE ApplyAll(_, _)
ApplyAll(s, es) ==
  IF es = <<>> THEN s ELSE ApplyAll(ApplyTo(s, Head(es)), Tail(es))

\* C19: in every tick the render step runs only after the drain has found
\* the queue empty, and nothing is painted during a drain; a rendered frame
\* is the snapshot the tick started from with all the events polled in the
\* tick applied in order, never a part of the batch.
C19_FrameShowsWholeBatch ==
  /\ [][(pc # "test_render" /\ pc' = "test_render")
          => (pc = "test_poll" /\ queue = <<>> /\ UNCHANGED snapVars)]_vars
  /\ [][pc = "test_poll" => UNCHANGED <<screen, rendered>>]_vars
  /\ [][(pc = "test_render" /\ rendered')
          => LET s == ApplyAll(tick_base, tick_events)
             IN  /\ Len(tick_events) = tick_polled
                 /\ screen' = Paint(joy_idx, COLS, s.axes, num_axes,
                                    s.buttons, num_buttons, s.hats, num_hats,
                                    s.balls, num_balls)]_vars

\* A tick after the first polled two events that moved both axes, and the
\* frame it painted shows both values.
C19_Witness ==
  /\ pc = "test_getch"
  /\ ~first_tick
  /\ rendered
  /\ tick_polled = 2
  /\ axes[0] # 0 /\ axes[1] # 0
  /\ screen.axes[0].value = axes[0]
  /\ screen.axes[1].value = axes[1]

====
